---- MODULE Spec2Model ----
(***************************************************************************)
(* A model of the Hack assembler of src/src/main.rs.                       *)
(*                                                                         *)
(* Text is modelled as a sequence of one-character strings, so that the    *)
(* character loop of assemble_source, trim, find and parse work on the     *)
(* characters themselves.  The Assembler struct is the record `self`;      *)
(* a function that can panic returns [panic |-> BOOLEAN, self |-> ...].    *)
(***************************************************************************)
EXTENDS Integers, Sequences, FiniteSets, TLC

VARIABLES
    source,        \* the text read by main (line 221), never changed
    pos,           \* source.chars(): index of the next character (1-based)
    self,          \* the Assembler struct (lines 34-40)
    partial,       \* finalize: what is left of `partial.into_iter()` (line 204)
    words,         \* finalize: the Vec<u16> collected so far (line 208)
    file,          \* the output file: NotWritten, or the text written (line 228)
    pc             \* where the run is

vars == <<source, pos, self, partial, words, file, pc>>

(***************************************************************************)
(* Characters and strings.                                                 *)
(***************************************************************************)

\* char::is_whitespace, as far as the sources considered here contain it
WhiteSpace == {" ", "\t", "\n", "\r"}

Digits == <<"0", "1", "2", "3", "4", "5", "6", "7", "8", "9">>

DigitChars == {Digits[i] : i \in 1..10}

\* the value of a decimal digit character
DigitValue(c) == (CHOOSE i \in 1..10 : Digits[i] = c) - 1

RECURSIVE trim_start(_)
trim_start(s) ==
    IF s # <<>> /\ Head(s) \in WhiteSpace THEN trim_start(Tail(s)) ELSE s

RECURSIVE trim_end(_)
trim_end(s) ==
    IF s # <<>> /\ s[Len(s)] \in WhiteSpace
    THEN trim_end(SubSeq(s, 1, Len(s) - 1))
    ELSE s

\* str::trim
trim(s) == trim_end(trim_start(s))

\* str::contains for a one-character pattern
contains(s, c) == \E i \in 1..Len(s) : s[i] = c

\* str::find for a one-character pattern: the 1-based index of the first
\* occurrence, 0 for None
find(s, c) ==
    IF contains(s, c)
    THEN CHOOSE i \in 1..Len(s) : s[i] = c /\ \A j \in 1..(i - 1) : s[j] # c
    ELSE 0

\* &s[from..] with a 1-based `from`
slice_from(s, from) == SubSeq(s, from, Len(s))

(***************************************************************************)
(* str::parse::<usize>.                                                    *)
(***************************************************************************)

RECURSIVE strip_zeros(_)
strip_zeros(s) ==
    IF s # <<>> /\ Head(s) = "0" THEN strip_zeros(Tail(s)) ELSE s

RECURSIVE decimal_value(_)
decimal_value(s) ==
    IF s = <<>> THEN 0
    ELSE 10 * decimal_value(SubSeq(s, 1, Len(s) - 1)) + DigitValue(s[Len(s)])

\* usize::MAX of a 64-bit target, 18446744073709551615, as digits
usize_max == <<"1", "8", "4", "4", "6", "7", "4", "4", "0", "7",
               "3", "7", "0", "9", "5", "5", "1", "6", "1", "5">>

\* a < b for two digit strings of the same length
RECURSIVE digits_less(_, _)
digits_less(a, b) ==
    IF a = <<>> THEN FALSE
    ELSE IF Head(a) # Head(b) THEN DigitValue(Head(a)) < DigitValue(Head(b))
    ELSE digits_less(Tail(a), Tail(b))

\* the numeral (without leading zeros) is more than usize::MAX
exceeds_usize(sig) ==
    \/ Len(sig) > Len(usize_max)
    \/ Len(sig) = Len(usize_max) /\ digits_less(usize_max, sig)

\* Numerals of up to this many digits are evaluated exactly.  A longer one
\* that fits usize is far above 0x7FFF, the only number it is compared with,
\* and is given the value 10^ExactDigits.
ExactDigits == 6

\* Ok(value) is [ok |-> TRUE, value |-> n]; Err(_) is [ok |-> FALSE, ...].
\* from_str_radix takes one leading "+" (never "-", usize is unsigned),
\* refuses an empty digit string and any non-digit, and reports a value
\* above usize::MAX as an error (PosOverflow).
parse_usize(s) ==
    LET digits == IF s # <<>> /\ Head(s) = "+" THEN Tail(s) ELSE s
        sig == strip_zeros(digits)
    IN  IF digits = <<>> \/ \E i \in 1..Len(digits) : digits[i] \notin DigitChars
        THEN [ok |-> FALSE, value |-> 0]
        ELSE IF exceeds_usize(sig)
        THEN [ok |-> FALSE, value |-> 0]
        ELSE IF Len(sig) > ExactDigits
        THEN [ok |-> TRUE, value |-> 10 ^ ExactDigits]
        ELSE [ok |-> TRUE, value |-> decimal_value(sig)]

(***************************************************************************)
(* u16 arithmetic.                                                         *)
(***************************************************************************)

U16 == 65536

\* `x as u16`
as_u16(x) == x % U16

RECURSIVE bit_or(_, _)
bit_or(a, b) ==
    IF a = 0 THEN b
    ELSE IF b = 0 THEN a
    ELSE (IF a % 2 = 1 \/ b % 2 = 1 THEN 1 ELSE 0) + 2 * bit_or(a \div 2, b \div 2)

\* a << n on u16: the bits shifted out are dropped
shl(a, n) == (a * (2 ^ n)) % U16

(***************************************************************************)
(* The data of the assembler.                                              *)
(***************************************************************************)

\* PartiallyAssembledInstruction (lines 10-13)
Complete(value) == [kind |-> "Complete", value |-> value]

SymbolicAddress(symbol) == [kind |-> "SymbolicAddress", symbol |-> symbol]

\* format!("{}", n) for a number
RECURSIVE to_decimal(_)
to_decimal(n) ==
    IF n < 10 THEN <<Digits[n + 1]>>
    ELSE to_decimal(n \div 10) \o <<Digits[(n % 10) + 1]>>

\* HashMap::insert: the new value replaces an earlier one
insert(table, key, value) ==
    [k \in (DOMAIN table) \cup {key} |-> IF k = key THEN value ELSE table[k]]

named_symbols ==
    (<<"S", "P">> :> 0) @@ (<<"L", "C", "L">> :> 1) @@ (<<"A", "R", "G">> :> 2)
    @@ (<<"T", "H", "I", "S">> :> 3) @@ (<<"T", "H", "A", "T">> :> 4)
    @@ (<<"S", "C", "R", "E", "E", "N">> :> 16384) @@ (<<"K", "B", "D">> :> 24576)

RECURSIVE insert_registers(_, _)
insert_registers(table, r) ==
    IF r = 16 THEN table
    ELSE insert_registers(insert(table, <<"R">> \o to_decimal(r), r), r + 1)

predefined_symbol_table == insert_registers(named_symbols, 0)

\* Assembler::new
new ==
    [state |-> "LookingForInstruction",
     instruction_buffer |-> <<>>,
     symbol_table |-> predefined_symbol_table,
     extra_data_address |-> 16,
     output |-> <<>>]

Ok(s) == [panic |-> FALSE, self |-> s]

Panic(s) == [panic |-> TRUE, self |-> s]

push(s, instruction) == [s EXCEPT !.output = Append(@, instruction)]

(***************************************************************************)
(* The Encoder.                                                            *)
(***************************************************************************)

\* A one-pass encoder: the symbol is resolved, and allocated when unbound,
\* at the A-type line itself instead of in finalize.
assemble_a_type_resolving_at_once(s) ==
    LET symbol == slice_from(trim(s.instruction_buffer), 2)
        parsed == parse_usize(symbol)
    IN  IF parsed.ok
        THEN IF parsed.value > 32767
             THEN Panic(s)
             ELSE Ok(push(s, Complete(as_u16(parsed.value))))
        ELSE IF symbol \in DOMAIN s.symbol_table
        THEN Ok(push(s, Complete(s.symbol_table[symbol])))
        ELSE Ok(push([s EXCEPT !.extra_data_address = as_u16(@ + 1),
                               !.symbol_table = insert(@, symbol, s.extra_data_address)],
                     Complete(s.extra_data_address)))

\* the range check of line 57 is missing: the value is cut to 16 bits
assemble_a_type_unchecked(s) ==
    LET symbol_or_value == slice_from(trim(s.instruction_buffer), 2)
        parsed == parse_usize(symbol_or_value)
    IN  IF parsed.ok
        THEN Ok(push(s, Complete(as_u16(parsed.value))))
        ELSE Ok(push(s, SymbolicAddress(symbol_or_value)))

assemble_a_type_instruction(s) ==
    LET t == trim(s.instruction_buffer)
        symbol_or_value == slice_from(t, 2)
        parsed == parse_usize(symbol_or_value)
    IN  IF parsed.ok
        THEN IF parsed.value > 32767
             THEN Panic(s)
             ELSE Ok(push(s, Complete(as_u16(parsed.value))))
        ELSE Ok(push(s, SymbolicAddress(symbol_or_value)))

jump_codes ==
    (<<"n", "u", "l", "l">> :> 0) @@ (<<"J", "G", "T">> :> 1)
    @@ (<<"J", "E", "Q">> :> 2) @@ (<<"J", "G", "E">> :> 3)
    @@ (<<"J", "L", "T">> :> 4) @@ (<<"J", "N", "E">> :> 5)
    @@ (<<"J", "L", "E">> :> 6) @@ (<<"J", "M", "P">> :> 7)

\* the opcodes of lines 100-128, in decimal: 0b0_101010 = 42, ...
opcodes ==
    (<<"0">> :> 42) @@ (<<"1">> :> 63) @@ (<<"-", "1">> :> 58)
    @@ (<<"D">> :> 12) @@ (<<"A">> :> 48)
    @@ (<<"!", "D">> :> 13) @@ (<<"!", "A">> :> 49)
    @@ (<<"-", "D">> :> 15) @@ (<<"-", "A">> :> 51)
    @@ (<<"D", "+", "1">> :> 31) @@ (<<"A", "+", "1">> :> 55)
    @@ (<<"D", "-", "1">> :> 14) @@ (<<"A", "-", "1">> :> 50)
    @@ (<<"D", "+", "A">> :> 2) @@ (<<"D", "-", "A">> :> 19)
    @@ (<<"A", "-", "D">> :> 7) @@ (<<"D", "&", "A">> :> 0)
    @@ (<<"D", "|", "A">> :> 21)
    @@ (<<"M">> :> 112) @@ (<<"!", "M">> :> 113) @@ (<<"-", "M">> :> 115)
    @@ (<<"M", "+", "1">> :> 119) @@ (<<"M", "-", "1">> :> 114)
    @@ (<<"D", "+", "M">> :> 66) @@ (<<"D", "-", "M">> :> 83)
    @@ (<<"M", "-", "D">> :> 71) @@ (<<"D", "&", "M">> :> 64)
    @@ (<<"D", "|", "M">> :> 85)

\* lines 69-82: the destination bits and the text after "="
dest_bits(dest_name) ==
    bit_or(bit_or(IF contains(dest_name, "M") THEN 1 ELSE 0,
                  IF contains(dest_name, "D") THEN 2 ELSE 0),
           IF contains(dest_name, "A") THEN 4 ELSE 0)

\* the computation shifted by 5 instead of 6: it runs into the destination
full_word_shifted_by_5(comp, dest, jmp) ==
    bit_or(bit_or(bit_or(57344, shl(comp, 5)), shl(dest, 3)), jmp)

\* line 132
full_word(comp, dest, jmp) ==
    bit_or(bit_or(bit_or(57344, shl(comp, 6)), shl(dest, 3)), jmp)

\* an unknown jump mnemonic is encoded as no jump instead of panicking
assemble_c_type_lenient_jump(s) ==
    LET line == trim(s.instruction_buffer)
        eq == find(line, "=")
        dest == IF eq # 0 THEN dest_bits(SubSeq(line, 1, eq - 1)) ELSE 0
        after_dest == IF eq # 0 THEN slice_from(line, eq + 1) ELSE line
        semi == find(after_dest, ";")
        jmp_name == slice_from(after_dest, semi + 1)
        instruction == IF semi # 0 THEN SubSeq(after_dest, 1, semi - 1)
                       ELSE after_dest
    IN  IF instruction \notin DOMAIN opcodes
        THEN Panic(s)
        ELSE Ok(push(s, Complete(full_word(opcodes[instruction], dest,
                            IF semi # 0 /\ jmp_name \in DOMAIN jump_codes
                            THEN jump_codes[jmp_name] ELSE 0))))

assemble_c_type_instruction(s) ==
    LET line == trim(s.instruction_buffer)
        eq == find(line, "=")
        dest == IF eq # 0 THEN dest_bits(SubSeq(line, 1, eq - 1)) ELSE 0
        after_dest == IF eq # 0 THEN slice_from(line, eq + 1) ELSE line
        semi == find(after_dest, ";")
        jmp_name == slice_from(after_dest, semi + 1)
        instruction == IF semi # 0 THEN SubSeq(after_dest, 1, semi - 1)
                       ELSE after_dest
    IN  IF semi # 0 /\ jmp_name \notin DOMAIN jump_codes
        THEN Panic(s)
        ELSE IF instruction \notin DOMAIN opcodes
        THEN Panic(s)
        ELSE Ok(push(s, Complete(full_word(opcodes[instruction], dest,
                            IF semi # 0 THEN jump_codes[jmp_name] ELSE 0))))

\* the label is bound to the index after the next instruction
assemble_label_off_by_one(s, trimmed) ==
    IF Len(trimmed) < 2
    THEN Panic(s)
    ELSE Ok([s EXCEPT !.symbol_table =
                insert(@, SubSeq(trimmed, 2, Len(trimmed) - 1),
                       as_u16(Len(s.output) + 1))])

\* lines 144-148: &trimmed[1..trimmed.len() - 1] panics for the one-character
\* line "(", whose range 1..0 starts after its end
assemble_label(s, trimmed) ==
    IF Len(trimmed) < 2
    THEN Panic(s)
    ELSE Ok([s EXCEPT !.symbol_table =
                insert(@, SubSeq(trimmed, 2, Len(trimmed) - 1),
                       as_u16(Len(s.output)))])

\* a line is taken for an instruction without being trimmed, so that a blank
\* line with a space in it reaches the C-type encoder
assemble_instruction_untrimmed(s) ==
    LET trimmed == s.instruction_buffer
        r == IF Len(trimmed) > 0
             THEN IF Head(trimmed) = "@" THEN assemble_a_type_instruction(s)
                  ELSE IF Head(trimmed) = "(" THEN assemble_label(s, trimmed)
                  ELSE assemble_c_type_instruction(s)
             ELSE Ok(s)
    IN  IF r.panic THEN r
        ELSE Ok([r.self EXCEPT !.instruction_buffer = <<>>])

\* the buffer is not cleared after a label line
assemble_instruction_keeping_label(s) ==
    LET trimmed == trim(s.instruction_buffer)
        r == IF Len(trimmed) > 0
             THEN IF Head(trimmed) = "@" THEN assemble_a_type_instruction(s)
                  ELSE IF Head(trimmed) = "(" THEN assemble_label(s, trimmed)
                  ELSE assemble_c_type_instruction(s)
             ELSE Ok(s)
    IN  IF r.panic \/ (Len(trimmed) > 0 /\ Head(trimmed) = "(") THEN r
        ELSE Ok([r.self EXCEPT !.instruction_buffer = <<>>])

assemble_instruction(s) ==
    LET trimmed == trim(s.instruction_buffer)
        r == IF Len(trimmed) > 0
             THEN IF Head(trimmed) = "@" THEN assemble_a_type_instruction(s)
                  ELSE IF Head(trimmed) = "(" THEN assemble_label(s, trimmed)
                  ELSE assemble_c_type_instruction(s)
             ELSE Ok(s)
    IN  IF r.panic THEN r
        ELSE Ok([r.self EXCEPT !.instruction_buffer = <<>>])

(***************************************************************************)
(* The Tokenizer: the body of the loop of assemble_source for character c. *)
(***************************************************************************)

\* the line break that ends a comment does not flush the buffer
tokenize_comment_without_flush(s, c) ==
    CASE s.state = "LookingForInstruction" ->
            IF c = "/" THEN Ok([s EXCEPT !.state = "OneSlash"])
            ELSE IF c = "\n" THEN assemble_instruction(s)
            ELSE Ok([s EXCEPT !.instruction_buffer = Append(@, c)])
      [] s.state = "OneSlash" ->
            IF c = "/" THEN Ok([s EXCEPT !.state = "Comment"])
            ELSE Ok([s EXCEPT !.state = "LookingForInstruction",
                              !.instruction_buffer = @ \o <<"/", c>>])
      [] s.state = "Comment" ->
            IF c = "\n"
            THEN Ok([s EXCEPT !.state = "LookingForInstruction"])
            ELSE Ok(s)

tokenize(s, c) ==
    CASE s.state = "LookingForInstruction" ->
            IF c = "/" THEN Ok([s EXCEPT !.state = "OneSlash"])
            ELSE IF c = "\n" THEN assemble_instruction(s)
            ELSE Ok([s EXCEPT !.instruction_buffer = Append(@, c)])
      [] s.state = "OneSlash" ->
            IF c = "/" THEN Ok([s EXCEPT !.state = "Comment"])
            ELSE Ok([s EXCEPT !.state = "LookingForInstruction",
                              !.instruction_buffer = @ \o <<"/", c>>])
      [] s.state = "Comment" ->
            IF c = "\n"
            THEN LET r == assemble_instruction(s)
                 IN  IF r.panic THEN r
                     ELSE Ok([r.self EXCEPT !.state = "LookingForInstruction"])
            ELSE Ok(s)

(***************************************************************************)
(* The Resolver.                                                           *)
(***************************************************************************)

\* The allocated address is returned but not recorded in the symbol table.
finalize_instruction_not_recording(s, instruction) ==
    IF instruction.kind = "Complete"
    THEN [self |-> s, value |-> instruction.value]
    ELSE IF instruction.symbol \in DOMAIN s.symbol_table
    THEN [self |-> s, value |-> s.symbol_table[instruction.symbol]]
    ELSE [self |-> [s EXCEPT !.extra_data_address = as_u16(@ + 1)],
          value |-> s.extra_data_address]

\* [self, value]: the Assembler after the call and the word returned.
\* extra_data_address += 1 is taken modulo 2^16.
finalize_instruction(s, instruction) ==
    IF instruction.kind = "Complete"
    THEN [self |-> s, value |-> instruction.value]
    ELSE IF instruction.symbol \in DOMAIN s.symbol_table
    THEN [self |-> s, value |-> s.symbol_table[instruction.symbol]]
    ELSE [self |-> [s EXCEPT !.extra_data_address = as_u16(@ + 1),
                             !.symbol_table =
                                 insert(@, instruction.symbol, s.extra_data_address)],
          value |-> s.extra_data_address]

(***************************************************************************)
(* main: the text of the output file.                                      *)
(***************************************************************************)

\* the low `width` bits of n, most significant first
RECURSIVE to_binary(_, _)
to_binary(n, width) ==
    IF width = 0 THEN <<>>
    ELSE to_binary(n \div 2, width - 1) \o <<Digits[(n % 2) + 1]>>

\* format!("{:016b}\n", instruction)
format_instruction(instruction) == to_binary(instruction, 16) \o <<"\n">>

\* the lines of all the instructions, one after the other: character k is
\* in the line of instruction (k - 1) \div 17 + 1
format_all(instructions) ==
    [k \in 1..(17 * Len(instructions)) |->
        format_instruction(instructions[((k - 1) \div 17) + 1])[((k - 1) % 17) + 1]]

NotWritten == [written |-> FALSE, text |-> <<>>]

Written(text) == [written |-> TRUE, text |-> text]

(***************************************************************************)
(* assemble(source) as a function: the same steps, run to the end.         *)
(***************************************************************************)

\* the loop of assemble_source from character i on
RECURSIVE tokenize_from(_, _, _)
tokenize_from(s, text, i) ==
    IF i > Len(text) THEN Ok(s)
    ELSE LET r == tokenize(s, text[i])
         IN  IF r.panic THEN r ELSE tokenize_from(r.self, text, i + 1)

\* finalize: the words of the instructions, resolved in order
RECURSIVE finalize(_, _)
finalize(s, instructions) ==
    IF instructions = <<>> THEN <<>>
    ELSE LET r == finalize_instruction(s, Head(instructions))
         IN  <<r.value>> \o finalize(r.self, Tail(instructions))

\* [panic, words]: whether the run panicked, and the words returned if not
assemble_source(s, text) ==
    LET r == tokenize_from(s, text, 1)
        e == assemble_instruction(r.self)
    IN  IF r.panic \/ e.panic
        THEN [panic |-> TRUE, words |-> <<>>]
        ELSE [panic |-> FALSE,
              words |-> finalize([e.self EXCEPT !.output = <<>>], e.self.output)]

assemble(text) == assemble_source(new, text)

(***************************************************************************)
(* Source texts.                                                           *)
(***************************************************************************)

\* the lines, each followed by a line break except the last
RECURSIVE join(_)
join(lines) ==
    IF lines = <<>> THEN <<>>
    ELSE IF Len(lines) = 1 THEN lines[1]
    ELSE Head(lines) \o <<"\n">> \o join(Tail(lines))

\* every sequence of at most n elements of S
SeqUpTo(S, n) == UNION {[1..k -> S] : k \in 0..n}

\* at most this many lines in a source
MaxLines == 3

\* The lines of the programs: blank, comment, references to the symbols a
\* and b, a label binding a and one binding the predefined SP, a numeral, a
\* computation with a trailing comment and surrounding blanks, and one line
\* for each fatal error.
Vocabulary ==
    { <<>>,
      <<"/", "/", "c">>,
      <<"@", "a">>,
      <<"@", "b">>,
      <<"(", "a", ")">>,
      <<"(", "S", "P", ")">>,
      <<"@", "5">>,
      <<" ", "D", "=", "A", " ", "/", "/", "c">>,
      <<"@", "3", "2", "7", "6", "8">>,
      <<"0", ";", "J">>,
      <<"D", "+", "D">> }

Sources == {join(lines) : lines \in SeqUpTo(Vocabulary, MaxLines)}

(***************************************************************************)
(* The run: main calls assemble, which tokenizes and encodes the source,   *)
(* then finalizes, and main writes the file.                               *)
(***************************************************************************)

InitWith(texts) ==
    /\ source \in texts
    /\ pos = 1
    /\ self = new
    /\ partial = <<>>
    /\ words = <<>>
    /\ file = NotWritten
    /\ pc = "assemble_source"

Init == InitWith(Sources)

\* one iteration of `for c in source.chars()` (lines 158-181)
Tokenize ==
    /\ pc = "assemble_source"
    /\ pos <= Len(source)
    /\ LET r == tokenize(self, source[pos])
       IN  /\ self' = r.self
           /\ pc' = IF r.panic THEN "panicked" ELSE pc
    /\ pos' = pos + 1
    /\ UNCHANGED <<source, partial, words, file>>

\* the end of the loop: the last flush (line 182) and the start of finalize
\* (line 204), which takes the output out of the Assembler
EndOfInput ==
    /\ pc = "assemble_source"
    /\ pos > Len(source)
    /\ LET r == assemble_instruction(self)
       IN  IF r.panic
           THEN /\ pc' = "panicked"
                /\ UNCHANGED <<self, partial>>
           ELSE /\ pc' = "finalize"
                /\ partial' = r.self.output
                /\ self' = [r.self EXCEPT !.output = <<>>]
    /\ UNCHANGED <<source, pos, words, file>>

\* one element of partial.into_iter().map(..) (lines 205-208)
FinalizeInstruction ==
    /\ pc = "finalize"
    /\ partial # <<>>
    /\ LET r == finalize_instruction(self, Head(partial))
       IN  /\ self' = r.self
           /\ words' = Append(words, r.value)
    /\ partial' = Tail(partial)
    /\ UNCHANGED <<source, pos, file, pc>>

\* assemble returns and main writes the file (lines 222-228)
WriteOutput ==
    /\ pc = "finalize"
    /\ partial = <<>>
    /\ file' = Written(format_all(words))
    /\ pc' = "done"
    /\ UNCHANGED <<source, pos, self, partial, words>>

Next == Tokenize \/ EndOfInput \/ FinalizeInstruction \/ WriteOutput

Spec == Init /\ [][Next]_vars

(***************************************************************************)
(* The source as the language describes it: physical lines, each blank,    *)
(* an A-type instruction, a label or a C-type instruction once its comment *)
(* and the surrounding blanks are removed.  The properties below are       *)
(* stated over these lines; the source texts they are checked on have "/"  *)
(* only in the "//" of a comment, as every program of the language has.    *)
(***************************************************************************)

RECURSIVE split_lines(_)
split_lines(text) ==
    LET n == find(text, "\n")
    IN  IF n = 0 THEN <<text>>
        ELSE <<SubSeq(text, 1, n - 1)>> \o split_lines(slice_from(text, n + 1))

\* the line up to its "//"
without_comment(line) ==
    IF \E i \in 1..(Len(line) - 1) : line[i] = "/" /\ line[i + 1] = "/"
    THEN SubSeq(line, 1,
             (CHOOSE i \in 1..(Len(line) - 1) :
                 /\ line[i] = "/" /\ line[i + 1] = "/"
                 /\ \A j \in 1..(i - 1) : ~(line[j] = "/" /\ line[j + 1] = "/")) - 1)
    ELSE line

\* the instructions of the source, one per physical line
SourceLines ==
    LET lines == split_lines(source)
    IN  [i \in DOMAIN lines |-> trim(without_comment(lines[i]))]

IsATypeLine(l) == l # <<>> /\ Head(l) = "@"

IsLabelLine(l) == Len(l) >= 2 /\ Head(l) = "(" /\ l[Len(l)] = ")"

IsCTypeLine(l) == l # <<>> /\ Head(l) \notin {"@", "("}

EmitsWord(l) == IsATypeLine(l) \/ IsCTypeLine(l)

\* the name a label line binds, the text an A-type line refers to
LabelName(l) == SubSeq(l, 2, Len(l) - 1)

Operand(l) == Tail(l)

\* an A-type line whose operand is a symbol, not a number
IsSymbolRef(l) == IsATypeLine(l) /\ ~parse_usize(Operand(l)).ok

\* the number of instructions on the lines before line i
InstructionsBefore(i) == Cardinality({k \in 1..(i - 1) : EmitsWord(SourceLines[k])})

\* the place in the output of the word of line i
WordIndex(i) == InstructionsBefore(i) + 1

\* line i is an instruction whose word the Resolver has produced
Resolved(i) ==
    /\ i \in DOMAIN SourceLines
    /\ EmitsWord(SourceLines[i])
    /\ WordIndex(i) <= Len(words)

\* line j is the last label line that binds `name`
LastLabelOf(name, j) ==
    /\ j \in DOMAIN SourceLines
    /\ IsLabelLine(SourceLines[j]) /\ LabelName(SourceLines[j]) = name
    /\ \A k \in (j + 1)..Len(SourceLines) :
           ~(IsLabelLine(SourceLines[k]) /\ LabelName(SourceLines[k]) = name)

IsLabelled(name) == \E j \in DOMAIN SourceLines : LastLabelOf(name, j)

ForwardReference(i, j) ==
    /\ i < j
    /\ IsSymbolRef(SourceLines[i])
    /\ LastLabelOf(Operand(SourceLines[i]), j)

(***************************************************************************)
(* C1.  A reference @X on a line before a label line (X) resolves to the   *)
(* address the label binds X to, the number of instructions before the     *)
(* (last) label line of X, and X keeps that binding: it is not allocated   *)
(* as a variable.  The Resolver starts only when the whole source has been *)
(* encoded.                                                                *)
(***************************************************************************)
C1_ForwardReferenceResolvesToLabel ==
    /\ pc \in {"finalize", "done"} =>
           pos > Len(source) /\ self.instruction_buffer = <<>>
    /\ words # <<>> =>
           \A i, j \in DOMAIN SourceLines :
               ForwardReference(i, j) /\ Resolved(i) =>
                   /\ words[WordIndex(i)] = InstructionsBefore(j)
                   /\ self.symbol_table[Operand(SourceLines[i])] = InstructionsBefore(j)
                   /\ self.extra_data_address =
                          16 + Cardinality({k \in DOMAIN self.symbol_table :
                                   /\ k \notin DOMAIN predefined_symbol_table
                                   /\ ~IsLabelled(k)})

\* a forward reference has been resolved, to a label bound after an instruction
C1_Witness ==
    /\ pc = "done"
    /\ \E i, j \in DOMAIN SourceLines :
           /\ ForwardReference(i, j) /\ Resolved(i)
           /\ InstructionsBefore(j) = 1
           /\ words[WordIndex(i)] = 1

IsVariable(name) ==
    name \notin DOMAIN predefined_symbol_table /\ ~IsLabelled(name)

IsVariableRef(i) ==
    IsSymbolRef(SourceLines[i]) /\ IsVariable(Operand(SourceLines[i]))

FirstReference(name) ==
    CHOOSE i \in DOMAIN SourceLines :
        /\ IsSymbolRef(SourceLines[i]) /\ Operand(SourceLines[i]) = name
        /\ \A k \in 1..(i - 1) :
               ~(IsSymbolRef(SourceLines[k]) /\ Operand(SourceLines[k]) = name)

\* the variables first referenced before line i
VariablesBefore(i) ==
    {Operand(SourceLines[k]) : k \in {k \in 1..(i - 1) : IsVariableRef(k)}}

(***************************************************************************)
(* C2.  The symbols that are neither predefined nor bound by a label get   *)
(* the addresses 16, 17, 18, ... in the order of their first reference;    *)
(* every reference to one symbol resolves to the same address and two      *)
(* symbols never share one.                                                *)
(***************************************************************************)
C2_VariablesInFirstReferenceOrder ==
    words # <<>> =>
        /\ \A i \in DOMAIN SourceLines :
               Resolved(i) /\ IsVariableRef(i) =>
                   words[WordIndex(i)] =
                       16 + Cardinality(VariablesBefore(
                                FirstReference(Operand(SourceLines[i]))))
        /\ \A i, j \in DOMAIN SourceLines :
               Resolved(i) /\ Resolved(j) /\ IsVariableRef(i) /\ IsVariableRef(j) =>
                   (words[WordIndex(i)] = words[WordIndex(j)]
                        <=> Operand(SourceLines[i]) = Operand(SourceLines[j]))

\* @a, @b, @a has been resolved to 16, 17, 16
C2_Witness ==
    /\ pc = "done"
    /\ SourceLines = << <<"@", "a">>, <<"@", "b">>, <<"@", "a">> >>
    /\ words = <<16, 17, 16>>

(***************************************************************************)
(* C3.  Once a symbol is bound its address never changes: no step of the   *)
(* run gives a bound symbol another value.                                 *)
(***************************************************************************)
C3_BoundSymbolNeverChanges ==
    [][\A name \in DOMAIN self.symbol_table :
          /\ name \in DOMAIN self'.symbol_table
          /\ self'.symbol_table[name] = self.symbol_table[name]]_vars

RegisterNames == {<<"R">> \o to_decimal(r) : r \in 0..15}

FixedAddress ==
    (<<"S", "P">> :> 0) @@ (<<"L", "C", "L">> :> 1) @@ (<<"A", "R", "G">> :> 2)
    @@ (<<"T", "H", "I", "S">> :> 3) @@ (<<"T", "H", "A", "T">> :> 4)
    @@ (<<"S", "C", "R", "E", "E", "N">> :> 16384) @@ (<<"K", "B", "D">> :> 24576)
    @@ [name \in RegisterNames |-> decimal_value(Tail(name))]

\* at most this many lines in a source of references to predefined symbols
MaxPredefinedLines == 2

\* a reference to each predefined symbol, a numeral and a label line
PredefinedVocabulary ==
    {<<"@">> \o name : name \in DOMAIN FixedAddress}
    \cup {<<"@", "5">>, <<"(", "S", "P", ")">>}

PredefinedSources ==
    {join(lines) : lines \in SeqUpTo(PredefinedVocabulary, MaxPredefinedLines)}

InitPredefined == InitWith(PredefinedSources)

SpecPredefined == InitPredefined /\ [][Next]_vars

(***************************************************************************)
(* C4.  Every reference to a predefined symbol resolves to its fixed       *)
(* address, whatever the other lines of the program are.                   *)
(***************************************************************************)
C4_PredefinedSymbolsResolveToFixedAddress ==
    \A i \in DOMAIN SourceLines :
        /\ Resolved(i)
        /\ IsATypeLine(SourceLines[i])
        /\ Operand(SourceLines[i]) \in DOMAIN FixedAddress
        => words[WordIndex(i)] = FixedAddress[Operand(SourceLines[i])]

\* at most this many lines in a source of numerals
MaxNumeralLines == 2

\* 0, 5, 16 with leading zeros, the two sides of 2^15 - 1, 2^16 + 5 (5 when
\* truncated to 16 bits), a numeral of seven digits, and the two sides of
\* usize::MAX
NumeralVocabulary ==
    { <<"@", "0">>,
      <<"@", "5">>,
      <<"@", "0", "0", "1", "6">>,
      <<"@", "3", "2", "7", "6", "7">>,
      <<"@", "3", "2", "7", "6", "8">>,
      <<"@", "6", "5", "5", "4", "1">>,
      <<"@", "1", "0", "0", "0", "0", "0", "0">>,
      <<"@">> \o usize_max,
      <<"@", "1", "8", "4", "4", "6", "7", "4", "4", "0", "7",
        "3", "7", "0", "9", "5", "5", "1", "6", "1", "6">> }

NumeralSources == {join(lines) : lines \in SeqUpTo(NumeralVocabulary, MaxNumeralLines)}

InitNumerals == InitWith(NumeralSources)

SpecNumerals == InitNumerals /\ [][Next]_vars

IsNumeral(text) ==
    text # <<>> /\ \A i \in 1..Len(text) : text[i] \in DigitChars

\* the numeral is at most 32767
InARange(text) ==
    /\ Len(strip_zeros(text)) <= 5
    /\ decimal_value(strip_zeros(text)) <= 32767

IsNumeralLine(l) == IsATypeLine(l) /\ IsNumeral(Operand(l))

\* the 16 characters of the k-th line of the output file
FileLine(k) == SubSeq(file.text, 17 * (k - 1) + 1, 17 * (k - 1) + 16)

(***************************************************************************)
(* C5.  An A-type line whose operand is a decimal numeral n emits the word *)
(* n when 0 <= n <= 32767 and aborts the translation otherwise: nothing is *)
(* emitted for a numeral out of range.                                     *)
(***************************************************************************)
C5_NumeralEmittedOrAborts ==
    \A i \in DOMAIN SourceLines :
        IsNumeralLine(SourceLines[i]) =>
            IF InARange(Operand(SourceLines[i]))
            THEN /\ Resolved(i) =>
                        words[WordIndex(i)] =
                            decimal_value(strip_zeros(Operand(SourceLines[i])))
                 /\ file.written /\ Operand(SourceLines[i]) = <<"3", "2", "7", "6", "7">> =>
                        FileLine(WordIndex(i)) =
                            <<"0", "1", "1", "1", "1", "1", "1", "1",
                              "1", "1", "1", "1", "1", "1", "1", "1">>
            ELSE /\ pc \notin {"finalize", "done"}
                 /\ Len(self.output) <= InstructionsBefore(i)

\* at most this many characters in a destination
MaxDestLen == 2

Destinations == SeqUpTo({"A", "D", "M"}, MaxDestLen)

\* the jump mnemonics in the order of their codes
JumpNames == << <<"n", "u", "l", "l">>, <<"J", "G", "T">>, <<"J", "E", "Q">>,
                <<"J", "G", "E">>, <<"J", "L", "T">>, <<"J", "N", "E">>,
                <<"J", "L", "E">>, <<"J", "M", "P">> >>

CTypeLines ==
    LET dests == {<<>>} \cup {d \o <<"=">> : d \in Destinations}
        jumps == {<<>>} \cup {<<";">> \o JumpNames[k] : k \in 1..8}
    IN  {d \o c \o j : d \in dests, c \in DOMAIN opcodes, j \in jumps}

InitCType == InitWith(CTypeLines)

SpecCType == InitCType /\ [][Next]_vars

\* the three parts of the line [dest=]comp[;jump]
DestOf(l) == SubSeq(l, 1, find(l, "=") - 1)

JumpOf(l) == IF find(l, ";") = 0 THEN <<>> ELSE slice_from(l, find(l, ";") + 1)

CompOf(l) ==
    SubSeq(l, find(l, "=") + 1, IF find(l, ";") = 0 THEN Len(l) ELSE find(l, ";") - 1)

DestValue(d) ==
    (IF contains(d, "M") THEN 1 ELSE 0) + (IF contains(d, "D") THEN 2 ELSE 0)
    + (IF contains(d, "A") THEN 4 ELSE 0)

JumpValue(j) == IF j = <<>> THEN 0 ELSE (CHOOSE k \in 1..8 : JumpNames[k] = j) - 1

(***************************************************************************)
(* C6.  A C-type line [dest=]comp[;jump] emits                             *)
(*     0b1110000000000000 | comp << 6 | dest << 3 | jmp                    *)
(* with dest the bits of M (1), D (2) and A (4) in the destination, 0      *)
(* without "=", and jmp 0 without ";".  The fields do not overlap: bits    *)
(* 15-13 are 111, bit 12 is set exactly for the computations on M.         *)
(***************************************************************************)
C6_CTypeWord ==
    pc = "done" =>
        LET l == SourceLines[1]
            w == words[1]
        IN  /\ Len(words) = 1
            /\ w = 57344 + 64 * opcodes[CompOf(l)] + 8 * DestValue(DestOf(l))
                       + JumpValue(JumpOf(l))
            /\ w \div 8192 = 7
            /\ (w \div 4096) % 2 = (IF contains(CompOf(l), "M") THEN 1 ELSE 0)
            /\ (w \div 64) % 64 = opcodes[CompOf(l)] % 64
            /\ (w \div 8) % 8 = DestValue(DestOf(l))
            /\ w % 8 = JumpValue(JumpOf(l))
            /\ l = <<"D", "=", "D", "+", "A", ";", "J", "G", "T">> =>
                   FileLine(1) = <<"1", "1", "1", "0", "0", "0", "0", "0",
                                   "1", "0", "0", "1", "0", "0", "0", "1">>

\* D=D+A;JGT has been written as 1110000010010001
C6_Witness ==
    /\ pc = "done"
    /\ source = <<"D", "=", "D", "+", "A", ";", "J", "G", "T">>
    /\ file.text = <<"1", "1", "1", "0", "0", "0", "0", "0",
                     "1", "0", "0", "1", "0", "0", "0", "1", "\n">>

InstructionLines == {i \in DOMAIN SourceLines : EmitsWord(SourceLines[i])}

\* the instruction the Encoder made of line i, once the Resolver has started
Encoded(i) ==
    IF WordIndex(i) <= Len(words)
    THEN Complete(words[WordIndex(i)])
    ELSE partial[WordIndex(i) - Len(words)]

(***************************************************************************)
(* C7.  The output holds one word for each A-type or C-type line of the    *)
(* source, in the order of the lines; labels, blank lines and comments     *)
(* give no word, and a source of blank lines and comments gives an empty   *)
(* output.                                                                 *)
(***************************************************************************)
C7_OneWordPerInstructionLine ==
    /\ pc \in {"finalize", "done"} =>
           /\ Len(words) + Len(partial) = Cardinality(InstructionLines)
           /\ \A i \in InstructionLines :
                  /\ IsSymbolRef(SourceLines[i]) /\ ~Resolved(i) =>
                         Encoded(i) = SymbolicAddress(Operand(SourceLines[i]))
                  /\ IsNumeralLine(SourceLines[i]) =>
                         Encoded(i) = Complete(decimal_value(Operand(SourceLines[i])))
                  /\ IsCTypeLine(SourceLines[i]) =>
                         Encoded(i).kind = "Complete" /\ Encoded(i).value >= 57344
                  /\ IsSymbolRef(SourceLines[i]) /\ Resolved(i) =>
                         words[WordIndex(i)] < 57344
    /\ pc = "done" =>
           /\ Len(words) = Cardinality(InstructionLines)
           /\ Len(file.text) = 17 * Cardinality(InstructionLines)
           /\ \A k \in 1..Len(words) : FileLine(k) = to_binary(words[k], 16)
           /\ InstructionLines = {} => file.text = <<>>

\* a label, a numeral, a comment and a computation gave two words
C7_Witness ==
    /\ pc = "done"
    /\ Len(SourceLines) = 3
    /\ \E i, j, k \in DOMAIN SourceLines :
           /\ IsLabelLine(SourceLines[i])
           /\ IsNumeralLine(SourceLines[j])
           /\ j < k /\ IsCTypeLine(SourceLines[k])
    /\ Len(words) = 2 /\ words[1] = 5 /\ words[2] >= 57344

\* the physical lines `lines` with line i replaced by `line`
WithLine(lines, i, line) == [lines EXCEPT ![i] = line]

\* `line` put before line i (after the last line when i = Len(lines) + 1)
WithLineBefore(lines, i, line) ==
    SubSeq(lines, 1, i - 1) \o <<line>> \o SubSeq(lines, i, Len(lines))

Decorations(text) ==
    LET lines == split_lines(text)
    IN  {join(WithLine(lines, i, lines[i] \o <<"/", "/", " ", "x">>)) : i \in DOMAIN lines}
        \cup {join(WithLine(lines, i, lines[i] \o <<" ", "/", "/">>)) : i \in DOMAIN lines}
        \cup {join(WithLine(lines, i, <<" ">> \o lines[i])) : i \in DOMAIN lines}
        \cup {join(WithLine(lines, i, <<"\t", " ">> \o lines[i])) : i \in DOMAIN lines}
        \cup {join(WithLine(lines, i, lines[i] \o <<" ", "\t">>)) : i \in DOMAIN lines}
        \cup {join(WithLineBefore(lines, i, <<>>)) : i \in 1..(Len(lines) + 1)}
        \cup {join(WithLineBefore(lines, i, <<" ", " ">>)) : i \in 1..(Len(lines) + 1)}
        \cup {join(WithLineBefore(lines, i, <<"/", "/", "@", "1">>)) :
                  i \in 1..(Len(lines) + 1)}

(***************************************************************************)
(* C8.  Comments and surrounding blanks do not matter: a comment appended  *)
(* to a line, a blank or a tab before or after a line, a blank line or a   *)
(* comment line put between lines, each leaves the result of assemble      *)
(* as it is.                                                               *)
(***************************************************************************)
C8_CommentsAndBlanksDoNotMatter ==
    /\ pc \in {"done", "panicked"} =>
           \A text \in Decorations(source) :
               assemble(text) = [panic |-> pc = "panicked", words |-> words]
    /\ pc = "done" /\ source = <<"@", "5">> =>
           /\ file.text = <<"0", "0", "0", "0", "0", "0", "0", "0",
                            "0", "0", "0", "0", "0", "1", "0", "1", "\n">>
           /\ assemble(<<"@", "5", " ", "/", "/", " ", "c">>).words = words
           /\ assemble(<<"\n", " ", " ", "@", "5", " ", " ", "\n">>).words = words

\* the line with blanks and a comment around D=A gave the word of D=A
C8_Witness ==
    /\ pc = "done"
    /\ source = <<" ", "D", "=", "A", " ", "/", "/", "c">>
    /\ assemble(<<"D", "=", "A">>).words = words
    /\ Len(words) = 1

\* the line the Tokenizer is in, and whether it stands at its end
CurrentLine == 1 + Cardinality({k \in 1..(pos - 1) : k <= Len(source) /\ source[k] = "\n"})

AtEndOfLine == pos > Len(source) \/ source[pos] = "\n"

\* the instructions emitted, wherever the step has left them
EmittedAfter == IF pc' = "finalize" THEN partial' ELSE self'.output

(***************************************************************************)
(* C9.  A label line (name) binds name to the number of instructions       *)
(* emitted so far, the index of the next instruction, and emits nothing;   *)
(* a label line right after another binds its name to the same address.    *)
(***************************************************************************)
C9_LabelBindsNextInstruction ==
    [][(/\ pc = "assemble_source"
        /\ AtEndOfLine
        /\ IsLabelLine(SourceLines[CurrentLine]))
       => LET name == LabelName(SourceLines[CurrentLine])
          IN  /\ pc' # "panicked"
              /\ self'.symbol_table[name] = Len(self.output)
              /\ self'.symbol_table[name] = InstructionsBefore(CurrentLine)
              /\ EmittedAfter = self.output
              /\ \A j \in (CurrentLine + 1)..Len(SourceLines) :
                     /\ EmitsWord(SourceLines[j])
                     /\ \A k \in (CurrentLine + 1)..(j - 1) : ~EmitsWord(SourceLines[k])
                     => WordIndex(j) - 1 = self'.symbol_table[name]
              /\ CurrentLine > 1 /\ IsLabelLine(SourceLines[CurrentLine - 1]) =>
                     self'.symbol_table[LabelName(SourceLines[CurrentLine - 1])]
                         = self'.symbol_table[name]
      ]_vars

\* (a) and (SP) on consecutive lines after one instruction are both bound to 1
C9_Witness ==
    /\ pc = "finalize"
    /\ Len(SourceLines) = 3
    /\ SourceLines[2] = <<"(", "a", ")">> /\ SourceLines[3] = <<"(", "S", "P", ")">>
    /\ Len(partial) = 1
    /\ self.symbol_table[<<"a">>] = 1 /\ self.symbol_table[<<"S", "P">>] = 1

\* the line triggers one of the fatal errors of the Encoder
IsFatalLine(l) ==
    \/ /\ IsATypeLine(l)
       /\ parse_usize(Operand(l)).ok
       /\ ~InARange(Operand(l))
    \/ /\ IsCTypeLine(l)
       /\ \/ find(l, ";") # 0 /\ JumpOf(l) \notin {JumpNames[k] : k \in 1..8}
          \/ CompOf(l) \notin DOMAIN opcodes

FatalLines == {i \in DOMAIN SourceLines : IsFatalLine(SourceLines[i])}

(***************************************************************************)
(* C10.  A fatal error aborts the run at the line that causes it and the   *)
(* output file is never written, not even in part; the file is written     *)
(* only when the Resolver has finished every instruction.                  *)
(***************************************************************************)
C10_NoOutputAfterFatalError ==
    /\ file.written \/ pc \in {"finalize", "done"} => FatalLines = {}
    /\ pc = "panicked" =>
           /\ ~file.written /\ words = <<>>
           /\ ~ENABLED Next
           /\ FatalLines # {}
           /\ CurrentLine - (IF pos <= Len(source) + 1 /\ pos > 1 /\ source[pos - 1] = "\n"
                             THEN 1 ELSE 0)
                  = CHOOSE i \in FatalLines : \A k \in FatalLines : i <= k
    /\ file.written =>
           /\ pc = "done" /\ partial = <<>>
           /\ Len(words) = Cardinality(InstructionLines)
           /\ file.text = format_all(words)

\* the run has stopped at a fatal line that follows an encoded instruction
C10_Witness ==
    /\ pc = "panicked"
    /\ Len(self.output) = 1
    /\ ~file.written
    /\ \E i \in FatalLines : i > 1

\* at most this many lines before the C-type line of a source
MaxContextLines == 1

ContextVocabulary == { <<"@", "5">>, <<"(", "a", ")">> }

\* destinations, each with its "=", or none
SomeDestinations == { <<>>, <<"D", "=">>, <<"A", "M", "=">> }

\* three computations of the table and six texts that are not in it
SomeComputations ==
    { <<"D", "+", "A">>, <<"M">>, <<"0">>,
      <<"D", "+", "D">>, <<"A", "+", "D">>, <<"d">>, <<"2">>, <<>>,
      <<"D", " ", "+", "1">> }

\* no jump, two mnemonics of the table and six texts that are not in it
SomeJumps ==
    { <<>>, <<";", "J", "M", "P">>, <<";", "n", "u", "l", "l">>,
      <<";">>, <<";", "j", "m", "p">>, <<";", "J", "X", "X">>,
      <<";", " ", "J", "G", "T">>, <<";", "J", "G", "T", ";", "J", "E", "Q">>,
      <<";", "J", "M">> }

\* lines that start like a C-type instruction
MixedCTypeLines ==
    {l \in {d \o c \o j : d \in SomeDestinations, c \in SomeComputations, j \in SomeJumps} :
        l # <<>>}

MixedCTypeSources ==
    {join(before \o <<l>> \o after) :
        before \in SeqUpTo(ContextVocabulary, MaxContextLines),
        l \in MixedCTypeLines,
        after \in {<<>>, << <<"@", "5">> >>}}

InitMixedCType == InitWith(MixedCTypeSources)

SpecMixedCType == InitMixedCType /\ [][Next]_vars

\* the line after its destination, the text after the first ";" of that, and
\* what is left between them
AfterDest(l) == IF find(l, "=") = 0 THEN l ELSE slice_from(l, find(l, "=") + 1)

HasJump(l) == find(AfterDest(l), ";") # 0

JumpText(l) == slice_from(AfterDest(l), find(AfterDest(l), ";") + 1)

ComputationText(l) ==
    IF HasJump(l) THEN SubSeq(AfterDest(l), 1, find(AfterDest(l), ";") - 1)
    ELSE AfterDest(l)

IsMalformedCType(l) ==
    /\ IsCTypeLine(l)
    /\ \/ HasJump(l) /\ JumpText(l) \notin {JumpNames[k] : k \in 1..8}
       \/ ComputationText(l) \notin DOMAIN opcodes

MalformedLines == {i \in DOMAIN SourceLines : IsMalformedCType(SourceLines[i])}

(***************************************************************************)
(* C11.  A C-type line whose jump text is not one of the eight mnemonics,  *)
(* or whose computation text is not one of the 28 forms, aborts the        *)
(* translation: the run panics when the line is flushed, no word is made   *)
(* of it and the Resolver never starts.                                    *)
(***************************************************************************)
C11_MalformedCTypeAborts ==
    \A i \in MalformedLines :
        /\ pc \in {"assemble_source", "panicked"}
        /\ Len(self.output) <= InstructionsBefore(i)
        /\ pc = "assemble_source" => CurrentLine <= i
        /\ ~file.written

\* the run has panicked on a line with an unknown jump, after one instruction
C11_Witness ==
    /\ pc = "panicked"
    /\ Len(self.output) = 1
    /\ \E i \in MalformedLines :
           /\ i = 2
           /\ ComputationText(SourceLines[i]) \in DOMAIN opcodes
           /\ HasJump(SourceLines[i])

(***************************************************************************)
(* Source texts for the Tokenizer: every text over a small alphabet.       *)
(***************************************************************************)

\* at most this many characters in a source
MaxSourceLen == 4

Alphabet == {"/", "\n", "@", "0", " "}

TokenizerSources == SeqUpTo(Alphabet, MaxSourceLen)

InitTokenizer == InitWith(TokenizerSources)

SpecTokenizer == InitTokenizer /\ [][Next]_vars

\* the step reads the character c of the source
Reads(c) == pc = "assemble_source" /\ pos <= Len(source) /\ source[pos] = c

\* the step hands the buffer to the Encoder, which takes it or panics
Flushes == pc' = "panicked" \/ self'.instruction_buffer = <<>>

(***************************************************************************)
(* C13 as stated.  The buffer is flushed at every line break of the        *)
(* source, whatever precedes it, and the text handed to the Encoder never  *)
(* contains a line break.                                                  *)
(***************************************************************************)
C13_FlushAtEveryNewline ==
    [][Reads("\n") => Flushes /\ ~contains(self'.instruction_buffer, "\n")]_vars

(***************************************************************************)
(* C13 as amended.  The buffer is flushed at every line break read in the  *)
(* states LookingForInstruction and Comment.  A line break read in the     *)
(* state OneSlash, right after a single "/", is appended to the buffer     *)
(* behind the slash and flushes nothing; these are the only line breaks    *)
(* the text handed to the Encoder contains.                                *)
(***************************************************************************)
C13_FlushAtNewlineOutsideOneSlash ==
    /\ [][Reads("\n") =>
            IF self.state = "OneSlash"
            THEN /\ self'.instruction_buffer = self.instruction_buffer \o <<"/", "\n">>
                 /\ self'.output = self.output
                 /\ self'.state = "LookingForInstruction"
            ELSE /\ Flushes
                 /\ pc' # "panicked" => self'.state = "LookingForInstruction"]_vars
    /\ [](\A k \in 1..Len(self.instruction_buffer) :
              self.instruction_buffer[k] = "\n" =>
                  k > 1 /\ self.instruction_buffer[k - 1] = "/")

\* a comment has ended with a flush that emitted an instruction, and a line
\* break after a single slash is in the buffer
C13_Witness ==
    /\ pc = "assemble_source"
    /\ Len(self.output) = 1
    /\ self.instruction_buffer = <<"/", "\n">>

(***************************************************************************)
(* C14.  A "/" read outside a comment and not followed by a second "/" is  *)
(* never lost: it is appended to the buffer together with the character    *)
(* after it, and when it is the last character of the source it is in the  *)
(* text of the last flush.                                                 *)
(***************************************************************************)
C14_LoneSlashNeverLost ==
    [][pc = "assemble_source" /\ self.state = "OneSlash" =>
          IF pos <= Len(source)
          THEN source[pos] # "/" =>
                   self'.instruction_buffer =
                       self.instruction_buffer \o <<"/", source[pos]>>
          ELSE /\ self.instruction_buffer # <<>>
               /\ self.instruction_buffer[Len(self.instruction_buffer)] = "/"]_vars

(***************************************************************************)
(* C15.  A source that does not end in a line break is assembled as the    *)
(* same source followed by a line break.                                   *)
(***************************************************************************)
C15_FinalNewlineDoesNotMatter ==
    /\ pc \in {"done", "panicked"}
    /\ source = <<>> \/ source[Len(source)] # "\n"
    => assemble(source \o <<"\n">>) = [panic |-> pc = "panicked", words |-> words]

(***************************************************************************)
(* C16.  The symbol table is changed only by a label line during encoding  *)
(* and by the first resolution of an unbound symbol during finalization.   *)
(* Reading a character of an A-type, C-type or blank line, and flushing    *)
(* such a line, leaves the symbol table and the counter of free addresses  *)
(* unchanged; a label line changes the binding of its own name only.       *)
(* Finalizing a completed word, or a placeholder whose symbol is bound,    *)
(* leaves the table and the counter unchanged, and a completed word is     *)
(* passed through; an unbound symbol adds its own binding only.            *)
(***************************************************************************)
C16_SymbolTableFrame ==
    [][/\ pc = "assemble_source" =>
            /\ self'.extra_data_address = self.extra_data_address
            /\ IF AtEndOfLine /\ IsLabelLine(SourceLines[CurrentLine])
               THEN \A name \in DOMAIN self'.symbol_table :
                        \/ name = LabelName(SourceLines[CurrentLine])
                        \/ /\ name \in DOMAIN self.symbol_table
                           /\ self'.symbol_table[name] = self.symbol_table[name]
               ELSE self'.symbol_table = self.symbol_table
       /\ pc = "finalize" /\ partial # <<>> =>
            LET instruction == Head(partial)
            IN  /\ instruction.kind = "Complete" =>
                    /\ words' = Append(words, instruction.value)
                    /\ self' = self
                /\ /\ instruction.kind = "SymbolicAddress"
                   /\ instruction.symbol \in DOMAIN self.symbol_table
                   => self' = self
                /\ /\ instruction.kind = "SymbolicAddress"
                   /\ instruction.symbol \notin DOMAIN self.symbol_table
                   => /\ DOMAIN self'.symbol_table =
                             DOMAIN self.symbol_table \cup {instruction.symbol}
                      /\ \A name \in DOMAIN self.symbol_table :
                             self'.symbol_table[name] = self.symbol_table[name]
       /\ pc = "finalize" /\ partial = <<>> => self' = self]_vars

\* a label, a new variable, a bound symbol and a completed word in one run
C16_Witness ==
    /\ pc = "done"
    /\ SourceLines = <<<<"(", "a", ")">>, <<"@", "b">>, <<"@", "a">>>>
    /\ words = <<16, 0>>
    /\ self.symbol_table[<<"a">>] = 0
    /\ self.symbol_table[<<"b">>] = 16

(***************************************************************************)
(* Source texts of symbol and label lines, well formed and not.            *)
(***************************************************************************)

\* at most this many lines in a source of symbol and label lines
MaxOddLines == 2

OddVocabulary ==
    { <<>>,
      <<"@">>,
      <<"@", "a">>,
      <<"@", "-", "1">>,
      <<"@", "1", "a">>,
      <<"@", "5">>,
      <<"@", "3", "2", "7", "6", "8">>,
      <<"(">>,
      <<"(", ")">>,
      <<"(", "a">>,
      <<"(", "a", ")">>,
      <<" ", "(", "a", ")", " ", "x">> }

OddSources == {join(ls) : ls \in SeqUpTo(OddVocabulary, MaxOddLines)}

InitOddLines == InitWith(OddSources)

SpecOddLines == InitOddLines /\ [][Next]_vars

\* the line opens with "(": a label line, closed or not
OpensLabel(l) == l # <<>> /\ Head(l) = "("

(***************************************************************************)
(* C17.  A source whose lines are all blank, symbol references ("@" and a  *)
(* text that is not a numeral) or lines opening with "(", whatever follows *)
(* the parenthesis, is translated without aborting.                        *)
(***************************************************************************)
C17_SymbolAndLabelLinesNeverAbort ==
    (\A i \in DOMAIN SourceLines :
         \/ SourceLines[i] = <<>>
         \/ IsSymbolRef(SourceLines[i])
         \/ OpensLabel(SourceLines[i]))
    => pc # "panicked"

(***************************************************************************)
(* Long programs: n instructions "0", the label (a) after them and a       *)
(* reference @a to it.  The short ones run from the start.  The one of     *)
(* RomSize instructions starts in the state its run reaches when the n     *)
(* words of the "0" lines are finalized and the reference is pending;      *)
(* LongRunState is that state, and the short runs pass through it.         *)
(***************************************************************************)

\* the largest value of an A-type instruction (line 57)
MaxAddress == 32767

\* the number of instructions at which a label address leaves 0..MaxAddress
RomSize == MaxAddress + 1

\* at most this many instructions in a long program run from the start
MaxShortProgram == 8

LongSource(n) ==
    [k \in 1..(2 * n) |-> IF k % 2 = 1 THEN "0" ELSE "\n"]
        \o <<"(", "a", ")", "\n", "@", "a">>

\* the number of "0" lines of a long source
ZeroLines == (Len(source) - 6) \div 2

\* the word of the line "0"
ZeroWord ==
    assemble_instruction([new EXCEPT !.instruction_buffer = <<"0">>]).self.output[1].value

LongRunState(n) ==
    /\ source = LongSource(n)
    /\ pos = Len(source) + 1
    /\ self = [new EXCEPT !.symbol_table = insert(@, <<"a">>, as_u16(n))]
    /\ partial = <<SymbolicAddress(<<"a">>)>>
    /\ words = [k \in 1..n |-> ZeroWord]
    /\ file = NotWritten
    /\ pc = "finalize"

InitLong ==
    \/ InitWith({LongSource(n) : n \in 0..MaxShortProgram})
    \/ LongRunState(RomSize)

SpecLong == InitLong /\ [][Next]_vars

\* every run is in LongRunState when only the reference is left to finalize
LongRunStateIsOfTheRun ==
    pc = "finalize" /\ Len(partial) = 1 => LongRunState(ZeroLines)

(***************************************************************************)
(* C18.  Every word the Resolver produces for a placeholder of an A-type   *)
(* instruction, a predefined symbol, a label or a variable, lies in        *)
(* 0..32767, whatever the number of instructions.                          *)
(***************************************************************************)
C18_ResolvedAddressHasBit15Clear ==
    [][/\ pc = "finalize"
       /\ partial # <<>>
       /\ Head(partial).kind = "SymbolicAddress"
       => words'[Len(words')] \in 0..MaxAddress]_vars

====
